---- MODULE Spec2Model ----
(***************************************************************************)
(* Track session core of the librespot plugin: the opened-track registry   *)
(* (TrackLoader), the Subfile window, and the gRPC TrackService handlers   *)
(* open / read / seek / close with their two nested tokio mutexes.         *)
(***************************************************************************)
EXTENDS Integers, Sequences, FiniteSets, TLC

(***************************************************************************)
(* Program constants                                                       *)
(***************************************************************************)
\* loader.rs:15  const SPOTIFY_OGG_HEADER_END: u64 = 0xa7
SPOTIFY_OGG_HEADER_END == 167
\* main.rs:441   default chunk size, and upper clamp (main.rs:443)
DefaultChunkSize == 10240
\* main.rs:443   lower clamp of the chunk size
MinChunkSize == 128
\* main.rs:448   mpsc::channel(4)
ChannelCapacity == 4
\* track.rs:14   ref_count: AtomicU16, fetch_add / fetch_sub wrap modulo 2^16
RefModulus == 65536

(***************************************************************************)
(* Bounds of the model                                                     *)
(***************************************************************************)
\* total number of requests the two request slots may issue in one run
MaxRequests == 3
\* number of short (partially filled) underlying reads allowed per session
MaxShortReads == 1

\* the request slots: two requests can be in flight concurrently
Procs == {"p1", "p2"}

(***************************************************************************)
(* SpotifyId: the 128-bit id and the item-type discriminant; both take     *)
(* part in Eq / Hash, so both are part of a Registry key.                  *)
(***************************************************************************)
SpotifyId(id, item_type) == [id |-> id, item_type |-> item_type]
TrackA == SpotifyId(1, "track")
TrackB == SpotifyId(2, "track")
EpisodeA == SpotifyId(1, "episode")
\* a track whose file is longer than the largest chunk
TrackC == SpotifyId(6, "track")
\* the ids requests are drawn from
Refs == {TrackA, TrackB}
\* a ref that SpotifyId::from_uri rejects
InvalidRef == SpotifyId(0, "invalid")

(***************************************************************************)
(* Formats (librespot_metadata AudioFileFormat) and the remote catalogue   *)
(***************************************************************************)
Mp3Formats == {"MP3_320", "MP3_256", "MP3_160", "MP3_96"}
OggFormats == {"OGG_VORBIS_320", "OGG_VORBIS_160", "OGG_VORBIS_96"}
OtherFormats == {"MP3_160_ENC", "AAC_24", "AAC_48", "FLAC_FLAC"}
AudioFileFormat == Mp3Formats \cup OggFormats \cup OtherFormats

\* AudioFiles::is_ogg_vorbis, used at loader.rs:189
is_ogg_vorbis(format) == format \in OggFormats

\* loader.rs:127-135  the fixed preference order
formats == << "MP3_320", "OGG_VORBIS_320", "MP3_256", "MP3_160",
              "OGG_VORBIS_160", "MP3_96", "OGG_VORBIS_96" >>

None == [tag |-> "none"]
Some(v) == [tag |-> "some", v |-> v]

\* loader.rs:139-154  formats.iter().find_map(|f| files.get(f)) ; files is a
\* map format -> file id, given as a function
RECURSIVE find_format(_, _)
find_format(files, i) ==
    IF i > Len(formats) THEN None
    ELSE IF formats[i] \in DOMAIN files
         THEN Some([format |-> formats[i], file_id |-> files[formats[i]]])
         ELSE find_format(files, i + 1)
select_format(files) == find_format(files, 1)

\* The same selection on a map given with its iteration order: entries is the
\* sequence of (format, file_id) pairs in the order the map would iterate.
\* HashMap::get finds the entry of a key wherever it sits in that order.
HashMap_get(entries, format) ==
    IF \E i \in 1..Len(entries) : entries[i].format = format
    THEN Some(entries[CHOOSE i \in 1..Len(entries) : entries[i].format = format].file_id)
    ELSE None
\* the map as a function format -> file id
files_of(entries) ==
    [f \in {entries[i].format : i \in 1..Len(entries)} |-> HashMap_get(entries, f).v]

\* a selector that takes the first supported entry in the map's iteration order
select_format_in_map_order(entries) ==
    LET ok == {i \in 1..Len(entries) :
                 \E k \in 1..Len(formats) : formats[k] = entries[i].format}
    IN  IF ok = {} THEN None
        ELSE LET i == CHOOSE i \in ok : \A j \in ok : i <= j
             IN  Some([format |-> entries[i].format, file_id |-> entries[i].file_id])
\* loader.rs:139-154  formats.iter().find_map(|format| files.get(format))
RECURSIVE find_map(_, _)
find_map(entries, i) ==
    IF i > Len(formats) THEN None
    ELSE IF HashMap_get(entries, formats[i]).tag = "some"
         THEN Some([format |-> formats[i], file_id |-> HashMap_get(entries, formats[i]).v])
         ELSE find_map(entries, i + 1)
select_format_in(entries) == find_map(entries, 1)


(***************************************************************************)
(* The external collaborators: metadata resolver, content source.          *)
(* Catalogue is what AudioItem::get_file resolves an id to; FileLen is the *)
(* length StreamLoaderController::len reports for a remote file id.        *)
(***************************************************************************)
AudioItem(availability, files, alternatives) ==
    [availability |-> availability, files |-> files, alternatives |-> alternatives]
NoFiles == [f \in {} |-> 0]

Catalogue(id) ==
    CASE id = 1 -> AudioItem(TRUE, ("OGG_VORBIS_320" :> 11 @@ "MP3_160" :> 12), None)
      [] id = 2 -> AudioItem(TRUE, ("MP3_256" :> 21 @@ "OGG_VORBIS_96" :> 22), None)
      [] id = 3 -> AudioItem(FALSE, ("MP3_320" :> 31), Some({1, 2}))
      [] id = 4 -> AudioItem(TRUE, ("FLAC_FLAC" :> 41 @@ "AAC_24" :> 42 @@ "MP3_160_ENC" :> 43), None)
      [] id = 5 -> AudioItem(TRUE, NoFiles, Some({2, 3}))
      [] id = 6 -> AudioItem(TRUE, ("MP3_320" :> 61), None)
      [] OTHER  -> AudioItem(TRUE, NoFiles, None)

FileLen(file_id) ==
    CASE file_id = 11 -> 2000
      [] file_id = 21 -> 300
      [] file_id = 61 -> 12000
      [] OTHER -> 1000

\* the points at which the environment can make an acquisition fail
\* (loader.rs:104, 165, 175, 180, 196); "key" is the non-fatal one
LoadFailures == {"metadata", "file", "controller", "key", "subfile_seek"}
LoadEnv == [fail : LoadFailures \cup {"none"}, alt : {0, 1, 2, 3}]

(***************************************************************************)
(* Subfile (track.rs:45-89) over an underlying stream of length stream_len *)
(* whose read/seek position is pos (absolute).                             *)
(***************************************************************************)
Ok(v) == [tag |-> "ok", v |-> v]
Err(e) == [tag |-> "err", e |-> e]

\* track.rs:52-61  Subfile::new: seek the stream to Start(offset)
Subfile_new(stream_len, offset, length, seek_ok) ==
    IF seek_ok
    THEN Ok([offset |-> offset, length |-> length,
             stream_len |-> stream_len, pos |-> offset])
    ELSE Err("io")

\* track.rs:70-89  Subfile::seek for SeekFrom::Start(p); the underlying seek
\* may fail (seek_ok = FALSE); a std stream accepts any absolute position
Subfile_seek_start(file, p, seek_ok) ==
    LET target == p + file.offset
    IN  IF seek_ok
        THEN [file |-> [file EXCEPT !.pos = target], res |-> Ok([position |-> target - file.offset])]
        ELSE [file |-> file, res |-> Err("io")]

(***************************************************************************)
(* Subfile::seek in full (track.rs:70-89), with the machine arithmetic of  *)
(* its u64 / i64 operands.  The model's words have WordBits bits.          *)
(***************************************************************************)
\* number of bits of a u64 / i64 in the model
WordBits == 16
U64Modulus == 2 ^ WordBits
I64Max == (U64Modulus \div 2) - 1
I64Min == 0 - (U64Modulus \div 2)

\* a build checks arithmetic overflow (and panics) or does not (and wraps)
Builds == {"debug", "release"}
Panic == [tag |-> "panic"]

\* the result x of a u64 operation: in range, or panic / wrap-around
u64_result(x, build) ==
    IF x >= 0 /\ x < U64Modulus THEN [panic |-> FALSE, n |-> x]
    ELSE [panic |-> build = "debug", n |-> x % U64Modulus]
\* the result x of an i64 operation
i64_result(x, build) ==
    IF x >= I64Min /\ x <= I64Max THEN [panic |-> FALSE, n |-> x]
    ELSE [panic |-> build = "debug", n |-> ((x - I64Min) % U64Modulus) + I64Min]
\* `v as i64` for a u64 v
as_i64(v) == IF v > I64Max THEN v - U64Modulus ELSE v

SeekFrom_Start(n) == [kind |-> "Start", n |-> n]
SeekFrom_End(n) == [kind |-> "End", n |-> n]
SeekFrom_Current(n) == [kind |-> "Current", n |-> n]

\* the underlying stream, a std::io::Seek: End and Current are relative to the
\* stream's length and position; a position before byte 0 (or beyond u64) is
\* an error that leaves the position alone; a position past the end is accepted
Stream_seek(stream_len, pos, from) ==
    LET t == CASE from.kind = "Start" -> from.n
               [] from.kind = "End" -> stream_len + from.n
               [] OTHER -> pos + from.n
    IN  IF t < 0 \/ t >= U64Modulus
        THEN [pos |-> pos, res |-> Err("InvalidInput")]
        ELSE [pos |-> t, res |-> Ok([position |-> t])]

\* the bytes of the underlying stream, by absolute position
StreamByte(i) == (7 * i + 3) % 256
\* the underlying stream's read of up to n bytes at pos
Stream_read(stream_len, pos, n) ==
    LET m == IF pos >= stream_len THEN 0
             ELSE IF n < stream_len - pos THEN n ELSE stream_len - pos
    IN  [pos |-> pos + m, data |-> [k \in 1..m |-> StreamByte(pos + k - 1)]]

\* a seek that forwards Start(p) to the stream as it is
Subfile_seek_untranslated(file, from, build) ==
    LET s == Stream_seek(file.stream_len, file.pos, from)
    IN  IF s.res.tag = "err" THEN [file |-> file, res |-> s.res]
        ELSE [file |-> [file EXCEPT !.pos = s.pos], res |-> s.res]
\* track.rs:71-88  Subfile::seek
Subfile_seek(file, from, build) ==
    LET target == u64_result(from.n + file.offset, build)
        diff == i64_result(as_i64(file.length) - from.n, build)
    IN  IF from.kind = "Start" /\ target.panic THEN [file |-> file, res |-> Panic]
        ELSE IF from.kind = "End" /\ diff.panic THEN [file |-> file, res |-> Panic]
        ELSE IF from.kind = "End" /\ diff.n < as_i64(file.offset)
        THEN [file |-> file, res |-> Err("newpos would be < self.offset")]
        ELSE LET pos == IF from.kind = "Start" THEN SeekFrom_Start(target.n) ELSE from
                 s == Stream_seek(file.stream_len, file.pos, pos)
                 local == u64_result(s.pos - file.offset, build)
             IN  IF s.res.tag = "err" THEN [file |-> file, res |-> s.res]
                 ELSE [file |-> [file EXCEPT !.pos = s.pos],
                       res |-> IF local.panic THEN Panic
                               ELSE Ok([position |-> local.n])]

\* track.rs:64-68  Subfile::read forwards to the stream
Subfile_read(file, n) ==
    LET r == Stream_read(file.stream_len, file.pos, n)
    IN  [file |-> [file EXCEPT !.pos = r.pos], data |-> r.data]

(***************************************************************************)
(* OpenedTrack (track.rs:11-43)                                            *)
(***************************************************************************)
OpenedTrack_new(file, controller_len, audio_format) ==
    [file |-> file, controller_len |-> controller_len,
     audio_format |-> audio_format, ref_count |-> 1]

\* an increment that adds nothing
incr_ref_adds_nothing(t) == [prev |-> t.ref_count, track |-> t]
\* track.rs:31-33  fetch_add returns the previous value, wrapping
incr_ref(t) ==
    [prev |-> t.ref_count,
     track |-> [t EXCEPT !.ref_count = (t.ref_count + 1) % RefModulus]]
\* a decrement that reports the new value instead of the previous one
decr_ref_returns_new(t) ==
    [prev |-> (t.ref_count + RefModulus - 1) % RefModulus,
     track |-> [t EXCEPT !.ref_count = (t.ref_count + RefModulus - 1) % RefModulus]]
\* track.rs:34-36  fetch_sub returns the previous value, wrapping
decr_ref(t) ==
    [prev |-> t.ref_count,
     track |-> [t EXCEPT !.ref_count = (t.ref_count + RefModulus - 1) % RefModulus]]
\* track.rs:37-39
OpenedTrack_len(t) == t.controller_len
\* track.rs:40-42
OpenedTrack_format(t) == t.audio_format

\* track.rs:97-101  impl Seek for OpenedTrack
OpenedTrack_seek(t, from, build) ==
    [track |-> [t EXCEPT !.file = Subfile_seek(t.file, from, build).file],
     res |-> Subfile_seek(t.file, from, build).res]
\* track.rs:91-95  impl Read for OpenedTrack
OpenedTrack_read(t, n) ==
    [track |-> [t EXCEPT !.file = Subfile_read(t.file, n).file],
     data |-> Subfile_read(t.file, n).data]

(***************************************************************************)
(* TrackLoader (loader.rs): opened_tracks is a map SpotifyId -> OpenedTrack *)
(***************************************************************************)
MapRemove(m, k) == [x \in (DOMAIN m) \ {k} |-> m[x]]
MapInsert(m, k, v) == [x \in (DOMAIN m) \cup {k} |-> IF x = k THEN v ELSE m[x]]

\* loader.rs:56-77
find_available_alternative(audio_item, env) ==
    IF ~audio_item.availability THEN None
    ELSE IF DOMAIN audio_item.files # {} THEN Some(audio_item)
    ELSE IF audio_item.alternatives.tag = "some"
         THEN \* the first probe to complete that resolved and is available
              IF env.alt \in audio_item.alternatives.v /\ Catalogue(env.alt).availability
              THEN Some(Catalogue(env.alt))
              ELSE None
         ELSE None

\* loader.rs:96-223  the acquisition; None on any failure
load_track(spotify_id, env) ==
    IF env.fail = "metadata" \/ spotify_id.item_type \notin {"track", "episode"} THEN None
    ELSE LET found == find_available_alternative(Catalogue(spotify_id.id), env)
         IN  IF found.tag = "none" THEN None
             ELSE LET sel == select_format(found.v.files)
                  IN  IF sel.tag = "none" THEN None
                      ELSE IF env.fail = "file" THEN None
                      ELSE IF env.fail = "controller" THEN None
                      ELSE LET len == FileLen(sel.v.file_id)
                               offset == IF is_ogg_vorbis(sel.v.format)
                                         THEN SPOTIFY_OGG_HEADER_END ELSE 0
                               sub == Subfile_new(len, offset, len, env.fail # "subfile_seek")
                           IN  IF sub.tag = "err" THEN None
                               ELSE Some([file |-> sub.v, format |-> sel.v.format,
                                          controller_len |-> len])

\* a close that reports success on an id that is not open
TrackLoader_close_ignores_absent(opened, track) ==
    IF track \in DOMAIN opened
    THEN IF decr_ref(opened[track]).prev <= 1
         THEN [opened |-> MapRemove(opened, track), res |-> Ok([ack |-> TRUE])]
         ELSE [opened |-> [opened EXCEPT ![track] = decr_ref(opened[track]).track],
               res |-> Ok([ack |-> TRUE])]
    ELSE [opened |-> opened, res |-> Ok([ack |-> TRUE])]
\* loader.rs:35-46
TrackLoader_close(opened, track) ==
    IF track \in DOMAIN opened
    THEN IF decr_ref(opened[track]).prev <= 1
         THEN [opened |-> MapRemove(opened, track), res |-> Ok([ack |-> TRUE])]
         ELSE [opened |-> [opened EXCEPT ![track] = decr_ref(opened[track]).track],
               res |-> Ok([ack |-> TRUE])]
    ELSE [opened |-> opened, res |-> Err("No track is currently open")]

\* a seek that takes a reference on the entry it moves
TrackLoader_seek_takes_ref(opened, track, position, seek_ok) ==
    IF track \in DOMAIN opened
    THEN LET s == Subfile_seek_start(opened[track].file, position, seek_ok)
         IN  [opened |-> [opened EXCEPT ![track].file = s.file,
                                        ![track].ref_count = (@ + 1) % RefModulus],
              res |-> s.res]
    ELSE [opened |-> opened, res |-> Err("No track is currently open")]
\* loader.rs:47-55
TrackLoader_seek(opened, track, position, seek_ok) ==
    IF track \in DOMAIN opened
    THEN LET s == Subfile_seek_start(opened[track].file, position, seek_ok)
         IN  [opened |-> [opened EXCEPT ![track].file = s.file], res |-> s.res]
    ELSE [opened |-> opened, res |-> Err("No track is currently open")]

\* an open on a resident id that reports the length of the Subfile window
\* left after the header instead of the controller's length
TrackLoader_open_hit_reports_window(opened, track) ==
    [opened |-> [opened EXCEPT ![track] = incr_ref(opened[track]).track],
     res |-> Ok([filesize |-> opened[track].file.length - opened[track].file.offset,
                 format |-> OpenedTrack_format(opened[track])])]
\* loader.rs:226-229  open on a resident id
TrackLoader_open_hit(opened, track) ==
    [opened |-> [opened EXCEPT ![track] = incr_ref(opened[track]).track],
     res |-> Ok([filesize |-> OpenedTrack_len(opened[track]),
                 format |-> OpenedTrack_format(opened[track])])]

\* an open that registers the id although load_track returned None
TrackLoader_open_miss_registers_failure(opened, track, loaded) ==
    IF loaded.tag = "some"
    THEN [opened |-> MapInsert(opened, track,
                        OpenedTrack_new(loaded.v.file, loaded.v.controller_len, loaded.v.format)),
          res |-> Ok([filesize |-> loaded.v.controller_len, format |-> loaded.v.format])]
    ELSE [opened |-> MapInsert(opened, track,
                        OpenedTrack_new(Subfile_new(0, 0, 0, TRUE).v, 0, "MP3_96")),
          res |-> Err("unable to load track")]
\* loader.rs:231-238  open on an absent id, once load_track has returned
TrackLoader_open_miss(opened, track, loaded) ==
    IF loaded.tag = "some"
    THEN [opened |-> MapInsert(opened, track,
                        OpenedTrack_new(loaded.v.file, loaded.v.controller_len, loaded.v.format)),
          res |-> Ok([filesize |-> loaded.v.controller_len, format |-> loaded.v.format])]
    ELSE [opened |-> opened, res |-> Err("unable to load track")]


(***************************************************************************)
(* The service: requests, locks, handlers (main.rs:397-560)                *)
(***************************************************************************)
\* a chunk size that is clamped from above only
chunk_size_of_no_floor(requested) ==
    IF requested = 0 THEN DefaultChunkSize
    ELSE IF requested > DefaultChunkSize THEN DefaultChunkSize ELSE requested
\* main.rs:440-444  the effective chunk size
chunk_size_of(requested) ==
    IF requested = 0 THEN DefaultChunkSize
    ELSE IF requested > DefaultChunkSize THEN DefaultChunkSize
         ELSE IF requested < MinChunkSize THEN MinChunkSize ELSE requested

Min(a, b) == IF a < b THEN a ELSE b

Request_open(t) == [op |-> "open", track |-> t, position |-> 0, limit |-> 0, chunk_size |-> 0]
Request_close(t) == [op |-> "close", track |-> t, position |-> 0, limit |-> 0, chunk_size |-> 0]
Request_seek(t, pos) == [op |-> "seek", track |-> t, position |-> pos, limit |-> 0, chunk_size |-> 0]
Request_read(t, offset, limit, cs) ==
    [op |-> "read", track |-> t, position |-> offset, limit |-> limit, chunk_size |-> cs]
NoRequest == [op |-> "none", track |-> TrackA, position |-> 0, limit |-> 0, chunk_size |-> 0]

\* the requests the clients issue in the model
OpenRefs == Refs \cup {SpotifyId(3, "track"), SpotifyId(4, "track")}
SeekPositions == {250}
ReadOffsets == {0}
ReadLimits == {300}
ReadChunkSizes == {200}
Requests ==
    {Request_open(t) : t \in OpenRefs}
    \cup {Request_close(t) : t \in Refs}
    \cup {Request_seek(t, pos) : t \in Refs, pos \in SeekPositions}
    \cup {Request_read(t, o, l, c) : t \in Refs, o \in ReadOffsets,
                                     l \in ReadLimits, c \in ReadChunkSizes}
    \cup {Request_open(InvalidRef), Request_close(InvalidRef),
          Request_seek(InvalidRef, 0), Request_read(InvalidRef, 0, 0, 0)}

\* items of a read channel: Result<ReadChunk, Status>
Chunk(from, n, eof) == [kind |-> "chunk", from |-> from, n |-> n, eof |-> eof, msg |-> ""]
ErrItem(msg) == [kind |-> "error", from |-> 0, n |-> 0, eof |-> FALSE, msg |-> msg]
NoItem == [kind |-> "none", from |-> 0, n |-> 0, eof |-> FALSE, msg |-> ""]

NoResp == [tag |-> "none"]
NoSession == [found |-> FALSE, base |-> 0, avail |-> 0, errs |-> 0]

VARIABLES
    opened_tracks,  \* TrackLoader.opened_tracks
    state_lock,     \* Plugin.state mutex: FIFO of tasks, the head holds it
    loader_lock,    \* PluginState.loader mutex: FIFO of tasks, the head holds it
    pc,             \* where each request handler is
    req,            \* the request each slot is serving
    resp,           \* the response the handler returned
    task,           \* where each spawned read producer task is
    item,           \* the item the producer is about to send
    read,           \* the producer's local `read` (bytes read so far)
    sent,           \* the items the producer has sent into its channel, in order
    nrecv,          \* how many of them the consumer has received
    rx_open,        \* whether the consumer still holds the receiving end
    nreq,           \* number of requests issued so far (bounded by MaxRequests)
    loaded,         \* history: "no" until the slot's request calls load_track, then
                    \* "called", then what load_track returned: "some" or "none"
    outstanding,    \* history: successful opens minus successful closes per id
    first_open,     \* history: what the acquiring open of each resident id returned
    issue,          \* history: whether the id was absent when the slot's request was
                    \* issued, and the slots whose current request overlaps it
    sess,           \* history: what the producer found at its lookup and seek
    nreads,         \* history: underlying read calls made by the session
    short_reads     \* history: underlying reads that did not fill the buffer

vars == << opened_tracks, state_lock, loader_lock, pc, req, resp, task, item, read,
           sent, nrecv, rx_open, nreq, loaded, outstanding, first_open, issue, sess,
           nreads, short_reads >>

lock_vars == << state_lock, loader_lock >>
session_vars == << task, item, read, sent, nrecv, rx_open, sess, nreads, short_reads >>
history_vars == << loaded, outstanding, first_open >>

AllIds == OpenRefs \cup {EpisodeA, TrackC, InvalidRef}
Holds(lock, p) == Len(lock) > 0 /\ Head(lock) = p
InFlight(p) == pc[p] \in {"wait_state", "wait_loader", "acquiring"}
               \/ task[p] \in {"spawned", "wait_loader", "loop", "send_chunk",
                               "send_readerr", "send_notopen", "send_seekerr"}

Init ==
    /\ opened_tracks = [t \in {} |-> 0]
    /\ state_lock = << >>
    /\ loader_lock = << >>
    /\ pc = [p \in Procs |-> "idle"]
    /\ req = [p \in Procs |-> NoRequest]
    /\ resp = [p \in Procs |-> NoResp]
    /\ task = [p \in Procs |-> "none"]
    /\ item = [p \in Procs |-> NoItem]
    /\ read = [p \in Procs |-> 0]
    /\ sent = [p \in Procs |-> << >>]
    /\ nrecv = [p \in Procs |-> 0]
    /\ rx_open = [p \in Procs |-> TRUE]
    /\ nreq = 0
    /\ loaded = [p \in Procs |-> "no"]
    /\ outstanding = [t \in AllIds |-> 0]
    /\ first_open = [t \in AllIds |-> NoResp]
    /\ issue = [p \in Procs |-> [absent |-> FALSE, with |-> {}]]
    /\ sess = [p \in Procs |-> NoSession]
    /\ nreads = [p \in Procs |-> 0]
    /\ short_reads = [p \in Procs |-> 0]

\* main.rs:398-408, 433-451, 528-534, 546-551: a request arrives, its ref is
\* parsed, the read channel is created, and the handler queues on the state lock
Request(p, r, budget) ==
    /\ pc[p] \in {"idle", "done"}
    /\ task[p] \in {"none", "done", "panicked"}
    /\ nreq < budget
    /\ r.track # InvalidRef
    /\ nreq' = nreq + 1
    /\ req' = [req EXCEPT ![p] = r]
    /\ resp' = [resp EXCEPT ![p] = NoResp]
    /\ pc' = [pc EXCEPT ![p] = "wait_state"]
    /\ state_lock' = Append(state_lock, p)
    /\ task' = [task EXCEPT ![p] = "none"]
    /\ item' = [item EXCEPT ![p] = NoItem]
    /\ read' = [read EXCEPT ![p] = 0]
    /\ sent' = [sent EXCEPT ![p] = << >>]
    /\ nrecv' = [nrecv EXCEPT ![p] = 0]
    /\ rx_open' = [rx_open EXCEPT ![p] = TRUE]
    /\ sess' = [sess EXCEPT ![p] = NoSession]
    /\ nreads' = [nreads EXCEPT ![p] = 0]
    /\ short_reads' = [short_reads EXCEPT ![p] = 0]
    /\ issue' = [q \in Procs |->
                   IF q = p
                   THEN [absent |-> r.track \notin DOMAIN opened_tracks,
                         with |-> {x \in Procs \ {p} : InFlight(x)}]
                   ELSE [issue[q] EXCEPT !.with = IF InFlight(q) THEN @ \cup {p}
                                                                 ELSE @ \ {p}]]
    /\ loaded' = [loaded EXCEPT ![p] = "no"]
    /\ UNCHANGED << opened_tracks, loader_lock, outstanding, first_open >>

\* main.rs:400-405, 435-436, 529-530, 547-548: the ref does not parse; the
\* handler returns InvalidArgument before it takes any lock
RequestInvalid(p, r, budget) ==
    /\ pc[p] \in {"idle", "done"}
    /\ task[p] \in {"none", "done", "panicked"}
    /\ nreq < budget
    /\ r.track = InvalidRef
    /\ nreq' = nreq + 1
    /\ req' = [req EXCEPT ![p] = r]
    /\ resp' = [resp EXCEPT ![p] = Err("InvalidArgument")]
    /\ pc' = [pc EXCEPT ![p] = "done"]
    /\ task' = [task EXCEPT ![p] = "none"]
    /\ issue' = [q \in Procs |->
                   IF q = p THEN [absent |-> TRUE, with |-> {}]
                   ELSE [issue[q] EXCEPT !.with = @ \ {p}]]
    /\ loaded' = [loaded EXCEPT ![p] = "no"]
    /\ UNCHANGED << opened_tracks, lock_vars, item, read, sent, nrecv, rx_open, sess,
                    nreads, short_reads, outstanding, first_open >>

\* main.rs:410-411, 536-537, 553-554: holding the state lock, open / seek /
\* close queue on the loader lock
LockLoader(p) ==
    /\ pc[p] = "wait_state"
    /\ Holds(state_lock, p)
    /\ req[p].op \in {"open", "seek", "close"}
    /\ loader_lock' = Append(loader_lock, p)
    /\ pc' = [pc EXCEPT ![p] = "wait_loader"]
    /\ UNCHANGED << opened_tracks, state_lock, req, resp, session_vars, nreq,
                    history_vars, issue >>

\* a handler that returns without dropping its state guard
Return_keeps_state_guard(p, r) ==
    /\ resp' = [resp EXCEPT ![p] = r]
    /\ pc' = [pc EXCEPT ![p] = "done"]
    /\ state_lock' = state_lock
    /\ loader_lock' = Tail(loader_lock)
\* the handler returns: its guards are dropped, loader first, then state
Return(p, r) ==
    /\ resp' = [resp EXCEPT ![p] = r]
    /\ pc' = [pc EXCEPT ![p] = "done"]
    /\ state_lock' = Tail(state_lock)
    /\ loader_lock' = Tail(loader_lock)

\* main.rs:413-429 with loader.rs:226-229: open finds the id resident
OpenHit(p) ==
    /\ pc[p] = "wait_loader"
    /\ Holds(loader_lock, p)
    /\ req[p].op = "open"
    /\ req[p].track \in DOMAIN opened_tracks
    /\ LET r == TrackLoader_open_hit(opened_tracks, req[p].track)
       IN  /\ opened_tracks' = r.opened
           /\ Return(p, r.res)
           /\ outstanding' = [outstanding EXCEPT ![req[p].track] = @ + 1]
    /\ UNCHANGED << req, session_vars, nreq, loaded, first_open, issue >>

\* an open that lets go of the loader lock before it calls load_track
OpenMiss_unlocked(p) ==
    /\ pc[p] = "wait_loader"
    /\ Holds(loader_lock, p)
    /\ req[p].op = "open"
    /\ req[p].track \notin DOMAIN opened_tracks
    /\ pc' = [pc EXCEPT ![p] = "acquiring"]
    /\ loaded' = [loaded EXCEPT ![p] = "called"]
    /\ loader_lock' = Append(Tail(loader_lock), p)
    /\ UNCHANGED << opened_tracks, state_lock, req, resp, session_vars, nreq,
                    outstanding, first_open, issue >>
\* main.rs:413-416 with loader.rs:226-231: open does not find the id and
\* awaits load_track, both guards still alive
OpenMiss(p) ==
    /\ pc[p] = "wait_loader"
    /\ Holds(loader_lock, p)
    /\ req[p].op = "open"
    /\ req[p].track \notin DOMAIN opened_tracks
    /\ pc' = [pc EXCEPT ![p] = "acquiring"]
    /\ loaded' = [loaded EXCEPT ![p] = "called"]
    /\ UNCHANGED << opened_tracks, lock_vars, req, resp, session_vars, nreq,
                    outstanding, first_open, issue >>

\* loader.rs:231-238 and main.rs:417-429: load_track has returned
AcquireDone(p, env) ==
    /\ pc[p] = "acquiring"
    /\ Holds(loader_lock, p)
    /\ LET r == TrackLoader_open_miss(opened_tracks, req[p].track,
                                      load_track(req[p].track, env))
       IN  /\ opened_tracks' = r.opened
           /\ Return(p, r.res)
           /\ IF r.res.tag = "ok"
              THEN /\ outstanding' = [outstanding EXCEPT ![req[p].track] = @ + 1]
                   /\ first_open' = [first_open EXCEPT ![req[p].track] = r.res]
              ELSE UNCHANGED << outstanding, first_open >>
    /\ loaded' = [loaded EXCEPT ![p] = load_track(req[p].track, env).tag]
    /\ UNCHANGED << req, session_vars, nreq, issue >>

\* a seek that moves the entry's file without waiting for the loader lock
Seek_without_lock(p, seek_ok) ==
    /\ pc[p] = "wait_loader"
    /\ req[p].op = "seek"
    /\ LET r == TrackLoader_seek(opened_tracks, req[p].track, req[p].position, seek_ok)
       IN  /\ opened_tracks' = r.opened
           /\ resp' = [resp EXCEPT ![p] = r.res]
           /\ pc' = [pc EXCEPT ![p] = "done"]
           /\ state_lock' = Tail(state_lock)
           /\ loader_lock' = SelectSeq(loader_lock, LAMBDA x : x # p)
    /\ UNCHANGED << req, session_vars, nreq, history_vars, issue >>
\* main.rs:527-544
Seek(p, seek_ok) ==
    /\ pc[p] = "wait_loader"
    /\ Holds(loader_lock, p)
    /\ req[p].op = "seek"
    /\ LET r == TrackLoader_seek(opened_tracks, req[p].track, req[p].position, seek_ok)
       IN  /\ opened_tracks' = r.opened
           /\ Return(p, r.res)
    /\ UNCHANGED << req, session_vars, nreq, history_vars, issue >>

\* main.rs:545-560
Close(p) ==
    /\ pc[p] = "wait_loader"
    /\ Holds(loader_lock, p)
    /\ req[p].op = "close"
    /\ LET r == TrackLoader_close(opened_tracks, req[p].track)
       IN  /\ opened_tracks' = r.opened
           /\ Return(p, r.res)
           /\ IF r.res.tag = "ok"
              THEN outstanding' = [outstanding EXCEPT ![req[p].track] = @ - 1]
              ELSE UNCHANGED outstanding
    /\ UNCHANGED << req, session_vars, nreq, loaded, first_open, issue >>


(***************************************************************************)
(* read (main.rs:432-526): the handler spawns a producer task and returns  *)
(* the receiving end of a bounded channel                                  *)
(***************************************************************************)
\* main.rs:437  read forces the item type of the parsed id to Track
read_key(r) == SpotifyId(r.track.id, "track")

\* main.rs:450-454, 524-525: under the state lock the producer task is
\* spawned; the handler returns the stream and its state guard is dropped
ReadHandler(p) ==
    /\ pc[p] = "wait_state"
    /\ Holds(state_lock, p)
    /\ req[p].op = "read"
    /\ task' = [task EXCEPT ![p] = "spawned"]
    /\ resp' = [resp EXCEPT ![p] = Ok([stream |-> TRUE])]
    /\ pc' = [pc EXCEPT ![p] = "streaming"]
    /\ state_lock' = Tail(state_lock)
    /\ UNCHANGED << opened_tracks, loader_lock, req, item, read, sent, nrecv, rx_open,
                    sess, nreads, short_reads, nreq, history_vars, issue >>

\* main.rs:455  the producer task queues on the loader lock
TaskStart(p) ==
    /\ task[p] = "spawned"
    /\ loader_lock' = Append(loader_lock, p)
    /\ task' = [task EXCEPT ![p] = "wait_loader"]
    /\ UNCHANGED << opened_tracks, state_lock, pc, req, resp, item, read, sent, nrecv,
                    rx_open, sess, nreads, short_reads, nreq, history_vars, issue >>

\* main.rs:457, 514-520: the id is not in the Registry
TaskNotOpen(p) ==
    /\ task[p] = "wait_loader"
    /\ Holds(loader_lock, p)
    /\ read_key(req[p]) \notin DOMAIN opened_tracks
    /\ item' = [item EXCEPT ![p] = ErrItem("No track is currently open")]
    /\ task' = [task EXCEPT ![p] = "send_notopen"]
    /\ UNCHANGED << opened_tracks, lock_vars, pc, req, resp, read, sent, nrecv,
                    rx_open, sess, nreads, short_reads, nreq, history_vars, issue >>

\* main.rs:457-469: the entry is found and sought to Start(offset)
TaskSeek(p, seek_ok) ==
    /\ task[p] = "wait_loader"
    /\ Holds(loader_lock, p)
    /\ read_key(req[p]) \in DOMAIN opened_tracks
    /\ LET k == read_key(req[p])
           s == Subfile_seek_start(opened_tracks[k].file, req[p].position, seek_ok)
       IN  /\ opened_tracks' = [opened_tracks EXCEPT ![k].file = s.file]
           /\ read' = [read EXCEPT ![p] = 0]
           /\ IF s.res.tag = "err"
              THEN /\ item' = [item EXCEPT ![p] = ErrItem("Couldn't seek in file")]
                   /\ task' = [task EXCEPT ![p] = "send_seekerr"]
                   /\ UNCHANGED sess
              ELSE /\ item' = item
                   /\ task' = [task EXCEPT ![p] = "loop"]
                   /\ sess' = [sess EXCEPT ![p] =
                                 [found |-> TRUE, base |-> s.file.pos,
                                  avail |-> s.file.stream_len - s.file.pos, errs |-> 0]]
    /\ UNCHANGED << lock_vars, pc, req, resp, sent, nrecv, rx_open, nreads,
                    short_reads, nreq, history_vars, issue >>

\* the eof flag of a chunk, set as well on the chunk that completes the limit
chunk_eof_at_limit(readsize, read_so_far, limit) == readsize = 0 \/ read_so_far >= limit
\* main.rs:479  eof: readsize == 0
chunk_eof(readsize, read_so_far, limit) == readsize = 0

\* what the underlying stream's read returns for a buffer of buflen bytes at
\* the file's position: the bytes available, at most buflen ("full"); fewer,
\* but at least one, on a short read ("short")
ReadOutcomes == {"full", "short", "err"}
read_full(buflen, file) ==
    IF file.pos >= file.stream_len THEN 0 ELSE Min(buflen, file.stream_len - file.pos)
read_size(buflen, file, outcome) ==
    IF outcome = "short" THEN (read_full(buflen, file) + 1) \div 2
    ELSE read_full(buflen, file)

\* a buffer sized without regard to what was read already
buffer_len_ignores_read(cs, limit, read_so_far) == Min(chunk_size_of(cs), limit)
\* a buffer of the full chunk size whatever is left of the limit
buffer_len_full_chunk(cs, limit, read_so_far) == chunk_size_of(cs)
\* main.rs:471  vec![0; cmp::min(chunk_size, limit - read)]
buffer_len(cs, limit, read_so_far) == Min(chunk_size_of(cs), limit - read_so_far)

\* main.rs:470-475, 499: one underlying read into a fresh buffer
TaskRead(p, outcome) ==
    /\ task[p] = "loop"
    /\ Holds(loader_lock, p)
    /\ LET k == read_key(req[p])
           file == opened_tracks[k].file
           buflen == buffer_len(req[p].chunk_size, req[p].limit, read[p])
       IN  /\ buflen >= 0
           /\ nreads' = [nreads EXCEPT ![p] = @ + 1]
           /\ outcome = "short" =>
                  short_reads[p] < MaxShortReads /\ read_full(buflen, file) > 1
           /\ IF outcome = "err"
              THEN /\ item' = [item EXCEPT ![p] = ErrItem("Cannot read track")]
                   /\ task' = [task EXCEPT ![p] = "send_readerr"]
                   /\ sess' = [sess EXCEPT ![p].errs = @ + 1]
                   /\ UNCHANGED << opened_tracks, read, short_reads >>
              ELSE LET readsize == read_size(buflen, file, outcome)
                   IN  /\ short_reads' = [short_reads EXCEPT ![p] =
                                            IF outcome = "short" THEN @ + 1 ELSE @]
                       /\ opened_tracks' = [opened_tracks EXCEPT ![k].file.pos = @ + readsize]
                       /\ read' = [read EXCEPT ![p] = @ + readsize]
                       /\ item' = [item EXCEPT ![p] =
                                     Chunk(file.pos, readsize,
                                           chunk_eof(readsize, read[p] + readsize, req[p].limit))]
                       /\ task' = [task EXCEPT ![p] = "send_chunk"]
                       /\ sess' = sess
    /\ UNCHANGED << lock_vars, pc, req, resp, sent, nrecv, rx_open, nreq,
                    history_vars, issue >>

\* a producer that goes on reading after it has queued a read-error item
after_send_resumes_after_error(p) ==
    IF item[p].kind = "chunk" /\ item[p].n # 0 /\ read[p] < req[p].limit THEN "loop"
    ELSE IF item[p].msg = "Cannot read track" /\ read[p] < req[p].limit THEN "loop"
    ELSE "done"
\* the producer's position after an item was queued (main.rs:483-497, 509, 466, 521)
after_send(p) ==
    IF item[p].kind = "chunk" /\ item[p].n # 0 /\ read[p] < req[p].limit
    THEN "loop" ELSE "done"

\* a producer that gives the loader lock back after every chunk it queues
TaskSend_unlocks(p) ==
    /\ task[p] \in {"send_chunk", "send_readerr", "send_notopen", "send_seekerr"}
    /\ Holds(loader_lock, p)
    /\ rx_open[p]
    /\ Len(sent[p]) - nrecv[p] < ChannelCapacity
    /\ sent' = [sent EXCEPT ![p] = Append(@, item[p])]
    /\ item' = [item EXCEPT ![p] = NoItem]
    /\ task' = [task EXCEPT ![p] = after_send(p)]
    /\ loader_lock' = IF after_send(p) = "done" THEN Tail(loader_lock)
                      ELSE Append(Tail(loader_lock), p)
    /\ UNCHANGED << opened_tracks, state_lock, pc, req, resp, read, nrecv, rx_open,
                    sess, nreads, short_reads, nreq, history_vars, issue >>
\* a send that never waits for room in the channel
TaskSend_unbounded(p) ==
    /\ task[p] \in {"send_chunk", "send_readerr", "send_notopen", "send_seekerr"}
    /\ Holds(loader_lock, p)
    /\ rx_open[p]
    /\ sent' = [sent EXCEPT ![p] = Append(@, item[p])]
    /\ item' = [item EXCEPT ![p] = NoItem]
    /\ task' = [task EXCEPT ![p] = after_send(p)]
    /\ loader_lock' = IF after_send(p) = "done" THEN Tail(loader_lock) ELSE loader_lock
    /\ UNCHANGED << opened_tracks, state_lock, pc, req, resp, read, nrecv, rx_open,
                    sess, nreads, short_reads, nreq, history_vars, issue >>
\* main.rs:476-497, 500-509, 460-466, 515-520: tx.send(item).await with the
\* consumer alive and room in the channel; the task ends (and drops its loader
\* guard) after an error item, a zero-byte chunk or the chunk that reaches limit
TaskSend(p) ==
    /\ task[p] \in {"send_chunk", "send_readerr", "send_notopen", "send_seekerr"}
    /\ Holds(loader_lock, p)
    /\ rx_open[p]
    /\ Len(sent[p]) - nrecv[p] < ChannelCapacity
    /\ sent' = [sent EXCEPT ![p] = Append(@, item[p])]
    /\ item' = [item EXCEPT ![p] = NoItem]
    /\ task' = [task EXCEPT ![p] = after_send(p)]
    /\ loader_lock' = IF after_send(p) = "done" THEN Tail(loader_lock) ELSE loader_lock
    /\ UNCHANGED << opened_tracks, state_lock, pc, req, resp, read, nrecv, rx_open,
                    sess, nreads, short_reads, nreq, history_vars, issue >>

\* a failed send after which the task ends without dropping its loader guard
TaskSendFailed_keeps_guard(p) ==
    /\ task[p] \in {"send_chunk", "send_readerr", "send_notopen", "send_seekerr"}
    /\ Holds(loader_lock, p)
    /\ ~rx_open[p]
    /\ item' = [item EXCEPT ![p] = NoItem]
    /\ task' = [task EXCEPT ![p] =
                  IF task[p] \in {"send_notopen", "send_seekerr"} THEN "panicked" ELSE "done"]
    /\ UNCHANGED << opened_tracks, lock_vars, pc, req, resp, read, sent, nrecv, rx_open,
                    sess, nreads, short_reads, nreq, history_vars, issue >>
\* the same sends when the consumer has dropped the receiving end: a chunk
\* send breaks out of the loop (main.rs:486-489), a read-error send is logged
\* (main.rs:500-509), the two .unwrap() sends panic the task (main.rs:465, 520);
\* the loader guard is dropped in every case
TaskSendFailed(p) ==
    /\ task[p] \in {"send_chunk", "send_readerr", "send_notopen", "send_seekerr"}
    /\ Holds(loader_lock, p)
    /\ ~rx_open[p]
    /\ item' = [item EXCEPT ![p] = NoItem]
    /\ task' = [task EXCEPT ![p] =
                  IF task[p] \in {"send_notopen", "send_seekerr"} THEN "panicked" ELSE "done"]
    /\ loader_lock' = Tail(loader_lock)
    /\ UNCHANGED << opened_tracks, state_lock, pc, req, resp, read, sent, nrecv, rx_open,
                    sess, nreads, short_reads, nreq, history_vars, issue >>

\* the consumer of the ReceiverStream (main.rs:524) takes the next item
Recv(p) ==
    /\ pc[p] = "streaming"
    /\ rx_open[p]
    /\ nrecv[p] < Len(sent[p])
    /\ nrecv' = [nrecv EXCEPT ![p] = @ + 1]
    /\ UNCHANGED << opened_tracks, lock_vars, pc, req, resp, task, item, read, sent,
                    rx_open, sess, nreads, short_reads, nreq, history_vars, issue >>

\* the consumer drops the stream; queued items are discarded with it
DropRx(p) ==
    /\ pc[p] = "streaming"
    /\ rx_open[p]
    /\ task[p] \notin {"done", "panicked"} \/ nrecv[p] < Len(sent[p])
    /\ rx_open' = [rx_open EXCEPT ![p] = FALSE]
    /\ UNCHANGED << opened_tracks, lock_vars, pc, req, resp, task, item, read, sent,
                    nrecv, sess, nreads, short_reads, nreq, history_vars, issue >>

\* the stream is over for the consumer: the producer task has ended and every
\* queued item was received, or the consumer had dropped the stream
StreamEnd(p) ==
    /\ pc[p] = "streaming"
    /\ task[p] \in {"done", "panicked"}
    /\ ~rx_open[p] \/ nrecv[p] = Len(sent[p])
    /\ pc' = [pc EXCEPT ![p] = "done"]
    /\ task' = [task EXCEPT ![p] = "none"]
    /\ read' = [read EXCEPT ![p] = 0]
    /\ sent' = [sent EXCEPT ![p] = << >>]
    /\ nrecv' = [nrecv EXCEPT ![p] = 0]
    /\ rx_open' = [rx_open EXCEPT ![p] = TRUE]
    /\ sess' = [sess EXCEPT ![p] = NoSession]
    /\ nreads' = [nreads EXCEPT ![p] = 0]
    /\ short_reads' = [short_reads EXCEPT ![p] = 0]
    /\ UNCHANGED << opened_tracks, lock_vars, req, resp, item, nreq, history_vars, issue >>

Next ==
    \/ \E p \in Procs, r \in Requests : Request(p, r, MaxRequests)
    \/ \E p \in Procs, r \in Requests : RequestInvalid(p, r, MaxRequests)
    \/ \E p \in Procs : LockLoader(p)
    \/ \E p \in Procs : OpenHit(p)
    \/ \E p \in Procs : OpenMiss(p)
    \/ \E p \in Procs, env \in LoadEnv : AcquireDone(p, env)
    \/ \E p \in Procs, seek_ok \in BOOLEAN : Seek(p, seek_ok)
    \/ \E p \in Procs : Close(p)
    \/ \E p \in Procs : ReadHandler(p)
    \/ \E p \in Procs : TaskStart(p)
    \/ \E p \in Procs : TaskNotOpen(p)
    \/ \E p \in Procs, seek_ok \in BOOLEAN : TaskSeek(p, seek_ok)
    \/ \E p \in Procs, outcome \in {"full", "err"} : TaskRead(p, outcome)
    \/ \E p \in Procs : TaskSend(p)
    \/ \E p \in Procs : TaskSendFailed(p)
    \/ \E p \in Procs : Recv(p)
    \/ \E p \in Procs : DropRx(p)
    \/ \E p \in Procs : StreamEnd(p)

Spec == Init /\ [][Next]_vars


(***************************************************************************)
(* One client issuing requests one after the other, with the whole range   *)
(* of read parameters and short underlying reads                           *)
(***************************************************************************)
\* number of requests issued in a run of SpecSession
MaxSessionRequests == 3

SessionOffsets == {0, 1000}
SessionLimits == {0, 1, 500}
SessionChunkSizes == {0, 1, 200, 50000}
SessionRequests ==
    {Request_open(t) : t \in Refs}
    \cup {Request_read(t, o, l, c) : t \in Refs, o \in SessionOffsets,
                                     l \in SessionLimits, c \in SessionChunkSizes}
    \cup {Request_read(InvalidRef, 0, 0, 0)}

NextSession ==
    \/ \E r \in SessionRequests : Request("p1", r, MaxSessionRequests)
    \/ \E r \in SessionRequests : RequestInvalid("p1", r, MaxSessionRequests)
    \/ LockLoader("p1")
    \/ OpenHit("p1")
    \/ OpenMiss("p1")
    \/ \E env \in LoadEnv : AcquireDone("p1", env)
    \/ ReadHandler("p1")
    \/ TaskStart("p1")
    \/ TaskNotOpen("p1")
    \/ \E seek_ok \in BOOLEAN : TaskSeek("p1", seek_ok)
    \/ \E outcome \in ReadOutcomes : TaskRead("p1", outcome)
    \/ TaskSend("p1")
    \/ TaskSendFailed("p1")
    \/ Recv("p1")
    \/ DropRx("p1")
    \/ StreamEnd("p1")

SpecSession == Init /\ [][NextSession]_vars


(***************************************************************************)
(* One client streaming a long file: sessions of many chunks, with a       *)
(* consumer that may lag behind the producer, and the scheduling under     *)
(* which a session makes progress                                          *)
(***************************************************************************)
\* number of requests issued in a run of SpecStream
MaxStreamRequests == 3

StreamRequests ==
    { Request_open(TrackC),
      Request_read(TrackC, 0, 0, 0),
      Request_read(TrackC, 0, 2, 1),
      Request_read(TrackC, 0, 700, 1),
      Request_read(TrackC, 0, 11000, 0),
      Request_read(TrackC, 0, 11000, 50000),
      Request_read(TrackC, 11500, 700, 200) }

NextStream ==
    \/ \E r \in StreamRequests : Request("p1", r, MaxStreamRequests)
    \/ LockLoader("p1")
    \/ OpenHit("p1")
    \/ OpenMiss("p1")
    \/ \E env \in LoadEnv : AcquireDone("p1", env)
    \/ ReadHandler("p1")
    \/ TaskStart("p1")
    \/ TaskNotOpen("p1")
    \/ \E seek_ok \in BOOLEAN : TaskSeek("p1", seek_ok)
    \/ \E outcome \in ReadOutcomes : TaskRead("p1", outcome)
    \/ TaskSend("p1")
    \/ TaskSendFailed("p1")
    \/ Recv("p1")
    \/ DropRx("p1")
    \/ StreamEnd("p1")

SpecStream == Init /\ [][NextStream]_vars

\* the tokio runtime polls a spawned task whenever it can make a step, the
\* underlying reads return, and the consumer takes a queued item unless it
\* drops the stream
StreamFairness ==
    /\ WF_vars(TaskStart("p1"))
    /\ WF_vars(TaskNotOpen("p1"))
    /\ WF_vars(\E seek_ok \in BOOLEAN : TaskSeek("p1", seek_ok))
    /\ WF_vars(\E outcome \in ReadOutcomes : TaskRead("p1", outcome))
    /\ WF_vars(TaskSend("p1"))
    /\ WF_vars(TaskSendFailed("p1"))
    /\ WF_vars(Recv("p1"))

SpecStreamFair == SpecStream /\ StreamFairness


(***************************************************************************)
(* The Subfile of an opened track driven through its Seek and Read         *)
(* implementations with every kind of SeekFrom; slot "p1" opens tracks,    *)
(* slot "p2" records the last call made on a Subfile and what it returned  *)
(***************************************************************************)
\* number of opens and Subfile calls in a run of SpecSubfile
MaxSubfileOps == 3

Call_seek(t, from) ==
    [op |-> from.kind, track |-> t, position |-> from.n, limit |-> 0, chunk_size |-> 0]
Call_read(t, n) ==
    [op |-> "Read", track |-> t, position |-> 0, limit |-> n, chunk_size |-> 0]

\* the arguments of the calls: positions around the header end (167), around
\* the lengths of the two files (300 and 2000), and at the ends of the words
SeekArgs ==
    {SeekFrom_Start(n) : n \in {0, 100, 299, 300, 1999, 2000, U64Modulus - 100}}
    \cup {SeekFrom_End(n) : n \in {I64Min, -2001, -2000, -1900, -300, -10, 0, 10, 1900}}
    \cup {SeekFrom_Current(n) : n \in {-100, 0, 50}}
ReadSizes == {0, 3}

\* track.rs:97-101, 70-89: seek(from) on the file of an opened track
SubfileSeek(t, from, build) ==
    /\ pc["p1"] \in {"idle", "done"}
    /\ t \in DOMAIN opened_tracks
    /\ nreq < MaxSubfileOps
    /\ nreq' = nreq + 1
    /\ opened_tracks' = [opened_tracks EXCEPT
                            ![t] = OpenedTrack_seek(opened_tracks[t], from, build).track]
    /\ req' = [req EXCEPT !["p2"] = Call_seek(t, from)]
    /\ resp' = [resp EXCEPT !["p2"] = OpenedTrack_seek(opened_tracks[t], from, build).res]
    /\ UNCHANGED << lock_vars, pc, session_vars, history_vars, issue >>

\* track.rs:91-95, 64-68: read of up to n bytes on the file of an opened track
SubfileRead(t, n) ==
    /\ pc["p1"] \in {"idle", "done"}
    /\ t \in DOMAIN opened_tracks
    /\ nreq < MaxSubfileOps
    /\ nreq' = nreq + 1
    /\ opened_tracks' = [opened_tracks EXCEPT
                            ![t] = OpenedTrack_read(opened_tracks[t], n).track]
    /\ req' = [req EXCEPT !["p2"] = Call_read(t, n)]
    /\ resp' = [resp EXCEPT !["p2"] = Ok([data |-> OpenedTrack_read(opened_tracks[t], n).data])]
    /\ UNCHANGED << lock_vars, pc, session_vars, history_vars, issue >>

NextSubfile ==
    \/ \E t \in Refs : Request("p1", Request_open(t), MaxSubfileOps)
    \/ LockLoader("p1")
    \/ OpenHit("p1")
    \/ OpenMiss("p1")
    \/ \E env \in LoadEnv : AcquireDone("p1", env)
    \/ \E t \in Refs, from \in SeekArgs, build \in Builds : SubfileSeek(t, from, build)
    \/ \E t \in Refs, n \in ReadSizes : SubfileRead(t, n)

SpecSubfile == Init /\ [][NextSubfile]_vars


(***************************************************************************)
(* The format selection of load_track applied to encodings maps of every   *)
(* content and iteration order; slot "p2" records the call and its result  *)
(***************************************************************************)
\* largest number of encodings in a map
MaxFiles == 3

\* the file id the catalogue gives an encoding in these maps
FileIdFor(format) ==
    CASE format = "MP3_320" -> 1 [] format = "OGG_VORBIS_320" -> 2
      [] format = "MP3_256" -> 3 [] format = "MP3_160" -> 4
      [] format = "OGG_VORBIS_160" -> 5 [] format = "MP3_96" -> 6
      [] format = "OGG_VORBIS_96" -> 7 [] format = "MP3_160_ENC" -> 8
      [] format = "AAC_24" -> 9 [] format = "AAC_48" -> 10
      [] OTHER -> 11
\* the maps of at most MaxFiles encodings, in each of their iteration orders
FileMaps ==
    UNION { { [i \in 1..n |-> [format |-> fs[i], file_id |-> 100 + FileIdFor(fs[i])]] :
                fs \in {g \in [1..n -> AudioFileFormat] :
                           \A i, j \in 1..n : g[i] = g[j] => i = j} } :
            n \in 0..MaxFiles }

Call_select(entries) == [op |-> "select_format", files |-> entries]

\* loader.rs:137-154  the selection on audio_item.files, applied to one map
SelectFormat(entries) ==
    /\ req["p2"] = NoRequest
    /\ req' = [req EXCEPT !["p2"] = Call_select(entries)]
    /\ resp' = [resp EXCEPT !["p2"] = select_format_in(entries)]
    /\ UNCHANGED << opened_tracks, lock_vars, pc, session_vars, nreq, history_vars, issue >>

NextFormat == \E entries \in FileMaps : SelectFormat(entries)

SpecFormat == Init /\ [][NextFormat]_vars


(***************************************************************************)
(* load_track applied to every catalogued id under every outcome of the    *)
(* environment; slot "p2" records the call and what it returned            *)
(***************************************************************************)
CatalogueIds == 1..6

Call_load(spotify_id, env) == [op |-> "load_track", track |-> spotify_id, env |-> env]

\* loader.rs:96-223  one acquisition
LoadTrack(spotify_id, env) ==
    /\ req["p2"] = NoRequest
    /\ req' = [req EXCEPT !["p2"] = Call_load(spotify_id, env)]
    /\ resp' = [resp EXCEPT !["p2"] = load_track(spotify_id, env)]
    /\ UNCHANGED << opened_tracks, lock_vars, pc, session_vars, nreq, history_vars, issue >>

NextAcquire ==
    \E id \in CatalogueIds, env \in LoadEnv : LoadTrack(SpotifyId(id, "track"), env)

SpecAcquire == Init /\ [][NextAcquire]_vars


(***************************************************************************)
(* Opens and closes of one id whose entry has been opened nearly as often  *)
(* as its 16-bit counter can count                                         *)
(***************************************************************************)
\* number of requests issued in a run of SpecWrap
MaxWrapRequests == 4

\* the opens outstanding on the entry at the start: two short of the modulus
WrapStart == RefModulus - 2

WrapRequests == {Request_open(TrackA), Request_close(TrackA)}

\* the state after WrapStart successful opens of TrackA and no close: the
\* entry the first open inserted, its counter raised by each later open
InitWrap ==
    LET loaded_track == load_track(TrackA, [fail |-> "none", alt |-> 0]).v
        entry == OpenedTrack_new(loaded_track.file, loaded_track.controller_len,
                                 loaded_track.format)
    IN  /\ opened_tracks = (TrackA :> [entry EXCEPT !.ref_count = WrapStart])
        /\ outstanding = [t \in AllIds |-> IF t = TrackA THEN WrapStart ELSE 0]
        /\ first_open = [t \in AllIds |->
                           IF t = TrackA
                           THEN Ok([filesize |-> loaded_track.controller_len,
                                    format |-> loaded_track.format])
                           ELSE NoResp]
        /\ state_lock = << >>
        /\ loader_lock = << >>
        /\ pc = [p \in Procs |-> "idle"]
        /\ req = [p \in Procs |-> NoRequest]
        /\ resp = [p \in Procs |-> NoResp]
        /\ task = [p \in Procs |-> "none"]
        /\ item = [p \in Procs |-> NoItem]
        /\ read = [p \in Procs |-> 0]
        /\ sent = [p \in Procs |-> << >>]
        /\ nrecv = [p \in Procs |-> 0]
        /\ rx_open = [p \in Procs |-> TRUE]
        /\ nreq = 0
        /\ loaded = [p \in Procs |-> "no"]
        /\ issue = [p \in Procs |-> [absent |-> FALSE, with |-> {}]]
        /\ sess = [p \in Procs |-> NoSession]
        /\ nreads = [p \in Procs |-> 0]
        /\ short_reads = [p \in Procs |-> 0]

NextWrap ==
    \/ \E p \in Procs, r \in WrapRequests : Request(p, r, MaxWrapRequests)
    \/ \E p \in Procs : LockLoader(p)
    \/ \E p \in Procs : OpenHit(p)
    \/ \E p \in Procs : OpenMiss(p)
    \/ \E p \in Procs, env \in LoadEnv : AcquireDone(p, env)
    \/ \E p \in Procs : Close(p)

SpecWrap == InitWrap /\ [][NextWrap]_vars


(***************************************************************************)
(* One client opening a track and reading as many bytes from offset 0 as   *)
(* the open reported, for an ogg file and for an mp3 file                  *)
(***************************************************************************)
\* number of requests issued in a run of SpecFilesize
MaxFilesizeRequests == 2

FilesizeRequests ==
    {Request_open(t) : t \in Refs}
    \cup {Request_read(t, 0, FileLen(select_format(Catalogue(t.id).files).v.file_id), 0) :
            t \in Refs}

NextFilesize ==
    \/ \E r \in FilesizeRequests : Request("p1", r, MaxFilesizeRequests)
    \/ LockLoader("p1")
    \/ OpenHit("p1")
    \/ OpenMiss("p1")
    \/ \E env \in LoadEnv : AcquireDone("p1", env)
    \/ ReadHandler("p1")
    \/ TaskStart("p1")
    \/ TaskNotOpen("p1")
    \/ \E seek_ok \in BOOLEAN : TaskSeek("p1", seek_ok)
    \/ \E outcome \in ReadOutcomes : TaskRead("p1", outcome)
    \/ TaskSend("p1")
    \/ TaskSendFailed("p1")
    \/ Recv("p1")
    \/ DropRx("p1")
    \/ StreamEnd("p1")

SpecFilesize == Init /\ [][NextFilesize]_vars


(***************************************************************************)
(* One client using a ref whose item type is episode                       *)
(***************************************************************************)
\* number of requests issued in a run of SpecEpisode
MaxEpisodeRequests == 3

EpisodeRequests ==
    {Request_open(EpisodeA), Request_open(TrackA), Request_close(EpisodeA),
     Request_seek(EpisodeA, 250), Request_read(EpisodeA, 0, 300, 200)}

NextEpisode ==
    \/ \E r \in EpisodeRequests : Request("p1", r, MaxEpisodeRequests)
    \/ LockLoader("p1")
    \/ OpenHit("p1")
    \/ OpenMiss("p1")
    \/ \E env \in LoadEnv : AcquireDone("p1", env)
    \/ \E seek_ok \in BOOLEAN : Seek("p1", seek_ok)
    \/ Close("p1")
    \/ ReadHandler("p1")
    \/ TaskStart("p1")
    \/ TaskNotOpen("p1")
    \/ \E seek_ok \in BOOLEAN : TaskSeek("p1", seek_ok)
    \/ \E outcome \in {"full", "err"} : TaskRead("p1", outcome)
    \/ TaskSend("p1")
    \/ TaskSendFailed("p1")
    \/ Recv("p1")
    \/ DropRx("p1")
    \/ StreamEnd("p1")

SpecEpisode == Init /\ [][NextEpisode]_vars


(***************************************************************************)
(* Two clients on the two nested locks: one reads a resident track in more *)
(* chunks than the channel holds while the other opens, seeks and closes   *)
(***************************************************************************)
\* number of requests issued in a run of SpecLocks
MaxLockRequests == 3

\* slot "p1" reads, slot "p2" opens, seeks and closes
LockRequests(p) ==
    IF p = "p1" THEN {Request_read(TrackC, 0, 600, 1)}
    ELSE {Request_open(TrackB), Request_open(TrackC), Request_seek(TrackC, 250),
          Request_close(TrackC)}

\* the state after one successful open of TrackC
InitLocks ==
    LET loaded_track == load_track(TrackC, [fail |-> "none", alt |-> 0]).v
        entry == OpenedTrack_new(loaded_track.file, loaded_track.controller_len,
                                 loaded_track.format)
    IN  /\ opened_tracks = (TrackC :> entry)
        /\ outstanding = [t \in AllIds |-> IF t = TrackC THEN 1 ELSE 0]
        /\ first_open = [t \in AllIds |->
                           IF t = TrackC
                           THEN Ok([filesize |-> loaded_track.controller_len,
                                    format |-> loaded_track.format])
                           ELSE NoResp]
        /\ state_lock = << >>
        /\ loader_lock = << >>
        /\ pc = [p \in Procs |-> "idle"]
        /\ req = [p \in Procs |-> NoRequest]
        /\ resp = [p \in Procs |-> NoResp]
        /\ task = [p \in Procs |-> "none"]
        /\ item = [p \in Procs |-> NoItem]
        /\ read = [p \in Procs |-> 0]
        /\ sent = [p \in Procs |-> << >>]
        /\ nrecv = [p \in Procs |-> 0]
        /\ rx_open = [p \in Procs |-> TRUE]
        /\ nreq = 0
        /\ loaded = [p \in Procs |-> "no"]
        /\ issue = [p \in Procs |-> [absent |-> FALSE, with |-> {}]]
        /\ sess = [p \in Procs |-> NoSession]
        /\ nreads = [p \in Procs |-> 0]
        /\ short_reads = [p \in Procs |-> 0]

NextLocks ==
    \/ \E p \in Procs : \E r \in LockRequests(p) : Request(p, r, MaxLockRequests)
    \/ \E p \in Procs : LockLoader(p)
    \/ \E p \in Procs : OpenHit(p)
    \/ \E p \in Procs : OpenMiss(p)
    \/ \E p \in Procs, env \in LoadEnv : AcquireDone(p, env)
    \/ \E p \in Procs, seek_ok \in BOOLEAN : Seek(p, seek_ok)
    \/ \E p \in Procs : Close(p)
    \/ \E p \in Procs : ReadHandler(p)
    \/ \E p \in Procs : TaskStart(p)
    \/ \E p \in Procs : TaskNotOpen(p)
    \/ \E p \in Procs, seek_ok \in BOOLEAN : TaskSeek(p, seek_ok)
    \/ \E p \in Procs, outcome \in {"full", "err"} : TaskRead(p, outcome)
    \/ \E p \in Procs : TaskSend(p)
    \/ \E p \in Procs : TaskSendFailed(p)
    \/ \E p \in Procs : Recv(p)
    \/ \E p \in Procs : DropRx(p)
    \/ \E p \in Procs : StreamEnd(p)

SpecLocks == InitLocks /\ [][NextLocks]_vars

\* every handler and every producer task is polled whenever it can make a
\* step, a lock that is free is handed to the head of its queue, load_track
\* returns, and a consumer that keeps its stream takes the queued items
LockFairness ==
    \A p \in Procs :
        /\ WF_vars(LockLoader(p))
        /\ WF_vars(OpenHit(p))
        /\ WF_vars(OpenMiss(p))
        /\ WF_vars(\E env \in LoadEnv : AcquireDone(p, env))
        /\ WF_vars(\E seek_ok \in BOOLEAN : Seek(p, seek_ok))
        /\ WF_vars(Close(p))
        /\ WF_vars(ReadHandler(p))
        /\ WF_vars(TaskStart(p))
        /\ WF_vars(TaskNotOpen(p))
        /\ WF_vars(\E seek_ok \in BOOLEAN : TaskSeek(p, seek_ok))
        /\ WF_vars(\E outcome \in {"full", "err"} : TaskRead(p, outcome))
        /\ WF_vars(TaskSend(p))
        /\ WF_vars(TaskSendFailed(p))
        /\ WF_vars(Recv(p))

SpecLocksFair == SpecLocks /\ LockFairness


(***************************************************************************)
(* Properties                                                              *)
(***************************************************************************)
Present(t) == t \in DOMAIN opened_tracks
Done(p, op) == pc[p] = "done" /\ req[p].op = op
InTransfer(p) == task[p] \in {"loop", "send_chunk", "send_readerr", "send_seekerr",
                            "send_notopen"}

\* C1: for every id the entry is present exactly while successful opens
\* outnumber successful closes, and its ref count is that difference: each
\* successful close lowers the count by one and the close that brings it to 0,
\* and no other, removes the entry.
C1_RefCountStateMachine ==
    \A t \in AllIds :
        /\ Present(t) <=> outstanding[t] >= 1
        /\ Present(t) => opened_tracks[t].ref_count = outstanding[t]
\* an entry opened twice has been closed once and is still present with count 1
C1_Witness ==
    \E p \in Procs :
        /\ Done(p, "close") /\ resp[p].tag = "ok"
        /\ Present(req[p].track)
        /\ opened_tracks[req[p].track].ref_count = 1

\* C2: two opens of the same id that overlap and were both issued while the
\* id was absent, once both have succeeded: exactly one of them called
\* load_track, both returned the same (filesize, format), the ref count is 2.
C2_ConcurrentOpenOnce ==
    \A p, q \in Procs :
        ( /\ p # q
          /\ Done(p, "open") /\ Done(q, "open")
          /\ req[p].track = req[q].track
          /\ issue[p].absent /\ issue[q].absent
          /\ q \in issue[p].with
          /\ resp[p].tag = "ok" /\ resp[q].tag = "ok" )
        => /\ (loaded[p] = "no") # (loaded[q] = "no")
           /\ resp[p] = resp[q]
           /\ Present(req[p].track)
           /\ opened_tracks[req[p].track].ref_count = 2
C2_Witness ==
    \E p, q \in Procs :
        /\ p # q
        /\ Done(p, "open") /\ Done(q, "open")
        /\ req[p].track = req[q].track
        /\ issue[p].absent /\ issue[q].absent
        /\ q \in issue[p].with
        /\ resp[p].tag = "ok" /\ resp[q].tag = "ok"

\* C3: an open that finds its id resident does not call load_track, raises the
\* ref count by one and returns what the acquiring open of that entry returned.
C3_OpenHit ==
    [][ \A p \in Procs :
          ( /\ pc[p] = "wait_loader" /\ req[p].op = "open"
            /\ Present(req[p].track)
            /\ pc'[p] = "done" )
          => /\ loaded'[p] = "no"
             /\ resp'[p] = first_open[req[p].track]
             /\ opened_tracks'[req[p].track].ref_count
                  = opened_tracks[req[p].track].ref_count + 1
             /\ \A t \in DOMAIN opened_tracks \ {req[p].track} :
                    opened_tracks'[t] = opened_tracks[t] ]_vars
\* a second open of the ogg track has returned without an acquisition
C3_Witness ==
    \E p \in Procs :
        /\ Done(p, "open") /\ resp[p].tag = "ok" /\ loaded[p] = "no"
        /\ req[p].track = TrackA
        /\ Present(TrackA) /\ opened_tracks[TrackA].ref_count = 2

\* C4: close or seek on an id that is not in the Registry returns an error and
\* leaves the Registry as it was.
C4_AbsentIsError ==
    [][ \A p \in Procs :
          ( /\ pc[p] = "wait_loader" /\ req[p].op \in {"close", "seek"}
            /\ ~Present(req[p].track)
            /\ pc'[p] = "done" )
          => /\ resp'[p] = Err("No track is currently open")
             /\ opened_tracks' = opened_tracks ]_vars
\* open; close; close: the second close has failed
C4_Witness ==
    \E p, q \in Procs :
        /\ Done(p, "close") /\ resp[p].tag = "err"
        /\ Done(q, "close") /\ resp[q].tag = "ok"
        /\ req[p].track = req[q].track

\* C5: an open whose load_track fails, at whichever step, returns the one
\* error "unable to load track" and leaves the Registry as it was.
C5_FailedOpenLeavesRegistry ==
    [][ \A p \in Procs :
          ( /\ pc[p] = "acquiring" /\ pc'[p] = "done"
            /\ loaded'[p] = "none" )
          => /\ resp'[p] = Err("unable to load track")
             /\ opened_tracks' = opened_tracks
             /\ ~Present(req[p].track)' ]_vars
\* an open has failed while another entry was resident
C5_Witness ==
    \E p \in Procs :
        /\ Done(p, "open") /\ resp[p].tag = "err" /\ loaded[p] = "none"
        /\ ~Present(req[p].track)
        /\ DOMAIN opened_tracks # {}


\* C6 as stated: the producer gives the Registry lock back after each chunk,
\* so between two chunks of a transfer it does not hold the lock.
C6_LockPerChunk ==
    \A p \in Procs : (task[p] = "loop" /\ Len(sent[p]) >= 1) => ~Holds(loader_lock, p)
\* C6 amended: the producer task takes the Registry lock once and holds it
\* from its lookup until it ends; while a transfer is in progress no other
\* read session is in the Registry and no open, seek or close completes.
C6_LockHeldForTransfer ==
    [][ \A p \in Procs :
          InTransfer(p) =>
            /\ Holds(loader_lock, p)
            /\ \A q \in Procs \ {p} :
                 /\ ~InTransfer(q)
                 /\ pc[q] # "acquiring"
                 /\ (pc[q] \in {"wait_state", "wait_loader"}
                     /\ req[q].op \in {"open", "seek", "close"})
                    => pc'[q] \in {"wait_state", "wait_loader"} ]_vars
\* a transfer is between its first and its second chunk while a close of the
\* same id waits for the loader lock
C6_Witness ==
    \E p, q \in Procs :
        /\ p # q
        /\ task[p] = "loop" /\ Len(sent[p]) >= 1
        /\ pc[q] = "wait_loader" /\ req[q].op = "close"
        /\ req[q].track = read_key(req[p])

\* C7 as stated: while load_track runs, the open does not hold the Registry lock.
C7_AcquireOutsideLock ==
    \A p \in Procs : pc[p] = "acquiring" => ~Holds(loader_lock, p)
\* C7 amended: on a miss, open holds the state lock and the Registry lock from
\* the lookup, across load_track, to the insert; while the acquisition is in
\* progress no other request is in the Registry or gets past the state lock.
C7_LockHeldForAcquisition ==
    [][ \A p \in Procs :
          pc[p] = "acquiring" =>
            /\ Holds(loader_lock, p)
            /\ Holds(state_lock, p)
            /\ \A q \in Procs \ {p} :
                 /\ ~InTransfer(q)
                 /\ pc[q] \notin {"wait_loader", "acquiring"}
                 /\ pc[q] = "wait_state" => pc'[q] = "wait_state" ]_vars
\* an acquisition is in progress while a seek of another, resident id waits
C7_Witness ==
    \E p, q \in Procs :
        /\ p # q
        /\ pc[p] = "acquiring"
        /\ pc[q] = "wait_state" /\ req[q].op = "seek"
        /\ req[q].track # req[p].track /\ Present(req[q].track)

\* the chunks a session is to emit for limit bytes from absolute position base
\* with effective chunk size c
ExpectedChunks(base, limit, c) ==
    LET k == (limit + c - 1) \div c
    IN  [i \in 1..k |-> Chunk(base + c * (i - 1),
                              IF i < k THEN c ELSE limit - c * (k - 1),
                              FALSE)]

\* C8: a session with limit >= 1 on an open entry whose stream holds the bytes
\* asked for, whose underlying reads all fill their buffer and whose consumer
\* stays connected, has emitted, when its task ends, exactly ceil(limit/c)
\* chunks of c bytes (the last one the remainder), consecutive from offset,
\* all with eof = FALSE.
C8_ChunkSequence ==
    \A p \in Procs :
        ( /\ task[p] = "done" /\ rx_open[p]
          /\ sess[p].found /\ sess[p].errs = 0 /\ short_reads[p] = 0
          /\ req[p].limit >= 1
          /\ sess[p].avail >= req[p].limit )
        => sent[p] = ExpectedChunks(sess[p].base, req[p].limit,
                                    chunk_size_of(req[p].chunk_size))
\* read(offset=1000, limit=500, chunk_size=200) has emitted [200, 200, 100]
C8_Witness ==
    \E p \in Procs :
        /\ task[p] = "done" /\ rx_open[p]
        /\ sess[p].found /\ sess[p].errs = 0 /\ short_reads[p] = 0
        /\ req[p].position = 1000 /\ req[p].limit = 500 /\ req[p].chunk_size = 200
        /\ Len(sent[p]) = 3
        /\ sent[p][1].n = 200 /\ sent[p][2].n = 200 /\ sent[p][3].n = 100

\* C9: a chunk has eof = TRUE exactly when the read that produced it returned
\* zero bytes (it is empty); a chunk with eof = TRUE is the last item of its
\* session and ends the producer task.
C9_EofOnlyOnZeroRead ==
    \A p \in Procs :
        /\ item[p].kind = "chunk" => (item[p].eof <=> item[p].n = 0)
        /\ \A i \in 1..Len(sent[p]) :
             /\ sent[p][i].kind = "chunk" => (sent[p][i].eof <=> sent[p][i].n = 0)
             /\ sent[p][i].eof => (i = Len(sent[p]) /\ task[p] = "done")
             /\ (i = Len(sent[p]) /\ task[p] = "done" /\ read[p] >= req[p].limit
                 /\ sent[p][i].kind = "chunk" /\ sent[p][i].n > 0) => ~sent[p][i].eof
\* a session ran into the end of the stream: data chunks, then an empty eof chunk
C9_Witness ==
    \E p \in Procs :
        /\ task[p] = "done"
        /\ Len(sent[p]) >= 2
        /\ sent[p][1].n > 0 /\ ~sent[p][1].eof
        /\ sent[p][Len(sent[p])].eof /\ sent[p][Len(sent[p])].n = 0

\* C10 as stated: a session with limit = 0 never calls read on the stream.
C10_NoReadAtLimitZero ==
    \A p \in Procs : (req[p].op = "read" /\ req[p].limit = 0) => nreads[p] = 0

\* the items a session has produced so far: those queued, then the one the
\* producer is about to send
Produced(p) == IF item[p].kind = "none" THEN sent[p] ELSE Append(sent[p], item[p])

\* C11: a read session emits at most one error item and that item is the last
\* one of the session: the not-open error and the seek-failure error are the
\* only item, a read error comes after the data chunks already sent, and after
\* an error item the task has ended, with nothing more to send.
C11_ErrorItemIsLast ==
    \A p \in Procs :
        \A i \in 1..Len(Produced(p)) :
            Produced(p)[i].kind = "error" =>
                /\ i = Len(Produced(p))
                /\ i <= Len(sent[p]) => task[p] = "done"
                /\ Produced(p)[i].msg \in {"No track is currently open",
                                           "Couldn't seek in file"} => i = 1
                /\ \A j \in 1..(i - 1) :
                      Produced(p)[j].kind = "chunk" /\ Produced(p)[j].n > 0
\* a session has ended on a read error after two data chunks were received
C11_Witness ==
    \E p \in Procs :
        /\ task[p] = "done" /\ rx_open[p]
        /\ Len(sent[p]) = 3 /\ nrecv[p] = 3
        /\ sent[p][1].kind = "chunk" /\ sent[p][2].kind = "chunk"
        /\ sent[p][3] = ErrItem("Cannot read track")

\* C12 as stated: when the consumer has dropped the channel, the send the
\* producer is at fails and the task ends silently, whichever item it was
\* sending: it does not panic, queues nothing and lets go of the loader lock.
C12_SilentExitOnDrop ==
    [][ \A p \in Procs :
          ( /\ task[p] \in {"send_chunk", "send_readerr", "send_seekerr", "send_notopen"}
            /\ ~rx_open[p]
            /\ task'[p] # task[p] )
          => /\ task'[p] = "done"
             /\ sent'[p] = sent[p]
             /\ ~Holds(loader_lock, p)' ]_vars

\* items queued in the channel: sent and not yet received
Queued(p) == Len(sent[p]) - nrecv[p]

\* C13: the items sent and not yet received never exceed the channel capacity
\* of 4; the producer reads from the stream only when it holds no unsent item,
\* so it holds at most one; and while the channel is full and the producer is
\* at its send, nothing of the session moves (no read, no item queued, the
\* same item pending) until the consumer receives an item or drops the channel.
C13_Backpressure ==
    /\ [](\A p \in Procs : Queued(p) <= 4)
    /\ [][ \A p \in Procs :
            /\ nreads'[p] > nreads[p] => item[p].kind = "none"
            /\ ( /\ Queued(p) = 4 /\ rx_open[p] /\ item[p].kind # "none"
                 /\ nrecv'[p] = nrecv[p] /\ rx_open'[p] )
               => /\ nreads'[p] = nreads[p]
                  /\ sent'[p] = sent[p]
                  /\ item'[p] = item[p]
                  /\ task'[p] = task[p]
                  /\ Holds(loader_lock, p)' ]_vars
\* four chunks are queued, none received, and the producer waits at its send
\* with a fifth chunk read
C13_Witness ==
    \E p \in Procs :
        /\ Queued(p) = 4 /\ nrecv[p] = 0 /\ rx_open[p]
        /\ task[p] = "send_chunk" /\ item[p].kind = "chunk" /\ item[p].n > 0
        /\ nreads[p] = 5

Max(a, b) == IF a > b THEN a ELSE b
Ended(p) == task[p] \in {"done", "panicked"}

\* C14: a session never produces more than max(limit, 1) items, and under the
\* scheduling of StreamFairness every spawned producer task ends, and when it
\* has ended it does not hold the loader lock.
C14_SessionFinite ==
    /\ [](\A p \in Procs : Len(Produced(p)) <= Max(req[p].limit, 1))
    /\ [](\A p \in Procs : Ended(p) => ~Holds(loader_lock, p))
    /\ \A p \in Procs : (task[p] = "spawned") ~> Ended(p)
\* a session with limit 2 has ended after two chunks of one byte each
C14_Witness ==
    \E p \in Procs :
        /\ task[p] = "done" /\ ~Holds(loader_lock, p)
        /\ req[p].op = "read" /\ req[p].limit = 2
        /\ Len(sent[p]) = 2 /\ sent[p][1].n = 1 /\ sent[p][2].n = 1

\* C15: the effective chunk size is 10240 for a requested size of 0 and the
\* requested size clamped into [128, 10240] otherwise; no chunk a session
\* produces carries more bytes than the effective chunk size.
C15_ChunkSizeClamp ==
    \A p \in Procs :
        req[p].op = "read" =>
            LET r == req[p].chunk_size
                c == chunk_size_of(r)
            IN  /\ r = 0 => c = 10240
                /\ (r # 0 /\ r < 128) => c = 128
                /\ (r >= 128 /\ r <= 10240) => c = r
                /\ r > 10240 => c = 10240
                /\ \A i \in 1..Len(Produced(p)) : Produced(p)[i].n <= c
\* read(limit=11000, chunk_size=50000) has sent a chunk of 10240 bytes, and
\* then the 760 that were left
C15_Witness ==
    \E p \in Procs :
        /\ req[p].op = "read" /\ req[p].chunk_size = 50000
        /\ Len(sent[p]) = 2 /\ sent[p][1].n = 10240 /\ sent[p][2].n = 760

\* the Subfile of an opened track, and the call being made on it in a step
FileOf(t) == opened_tracks[t].file
Calls(t, kind) == nreq' # nreq /\ req'["p2"].op = kind /\ req'["p2"].track = t

\* C16 as stated: on a Subfile of offset o over a stream of length L,
\* seek(End(e)) with L + e < o returns an error and leaves the stream where
\* it was.
C16_EndBeforeOffsetRejected ==
    [][ \A t \in DOMAIN opened_tracks :
          ( /\ Calls(t, "End")
            /\ FileOf(t).stream_len + req'["p2"].position < FileOf(t).offset )
          => /\ resp'["p2"].tag = "err"
             /\ opened_tracks'[t].file = FileOf(t) ]_vars

\* C17 as stated: seek(End(e)) with L + e >= o succeeds, leaves the stream at
\* L + e and returns L + e - o.
C17_EndFromOffsetAccepted ==
    [][ \A t \in DOMAIN opened_tracks :
          ( /\ Calls(t, "End")
            /\ FileOf(t).stream_len + req'["p2"].position >= FileOf(t).offset )
          => /\ resp'["p2"] = Ok([position |-> FileOf(t).stream_len + req'["p2"].position
                                                - FileOf(t).offset])
             /\ opened_tracks'[t].file.pos = FileOf(t).stream_len + req'["p2"].position ]_vars

\* C18 as stated: the position a successful seek of any kind returns is in
\* [0, length), and the stream is then at that position + offset.
C18_PositionInWindow ==
    [][ \A t \in DOMAIN opened_tracks :
          ( /\ Calls(t, "Start") \/ Calls(t, "End") \/ Calls(t, "Current")
            /\ resp'["p2"].tag = "ok" )
          => /\ resp'["p2"].v.position >= 0
             /\ resp'["p2"].v.position < FileOf(t).length
             /\ opened_tracks'[t].file.pos = resp'["p2"].v.position + FileOf(t).offset ]_vars

\* C19: seek(Start(p)) with p in [0, length) returns p, and the read of n
\* bytes that follows it returns the bytes the stream itself returns for a
\* read of n bytes at absolute position offset + p.
C19_StartThenRead ==
    [][ \A t \in DOMAIN opened_tracks :
          /\ ( /\ Calls(t, "Start")
               /\ req'["p2"].position < FileOf(t).length )
             => resp'["p2"] = Ok([position |-> req'["p2"].position])
          /\ ( /\ Calls(t, "Read")
               /\ req["p2"].op = "Start" /\ req["p2"].track = t
               /\ req["p2"].position < FileOf(t).length )
             => resp'["p2"].v.data
                  = Stream_read(FileOf(t).stream_len,
                                Stream_seek(FileOf(t).stream_len, 0,
                                            SeekFrom_Start(FileOf(t).offset
                                                           + req["p2"].position)).pos,
                                req'["p2"].limit).data ]_vars
\* seek(Start(100)) on the ogg track, then a read of 3 bytes, has returned
\* the stream's bytes 267, 268 and 269
C19_Witness ==
    /\ req["p2"].op = "Read" /\ req["p2"].track = TrackA /\ req["p2"].limit = 3
    /\ TrackA \in DOMAIN opened_tracks
    /\ opened_tracks[TrackA].file.offset = 167
    /\ opened_tracks[TrackA].file.pos = 270
    /\ resp["p2"] = Ok([data |-> << StreamByte(267), StreamByte(268), StreamByte(269) >>])

\* the iteration orders of a map: every permutation of its entries
Orders(entries) ==
    { [i \in 1..Len(entries) |-> entries[pi[i]]] :
        pi \in {g \in [1..Len(entries) -> 1..Len(entries)] :
                   \A i, j \in 1..Len(entries) : g[i] = g[j] => i = j} }

\* C20: the selector returns the first format of the order MP3_320,
\* OGG_VORBIS_320, MP3_256, MP3_160, OGG_VORBIS_160, MP3_96, OGG_VORBIS_96 that
\* is a key of the map, with that key's file id, and nothing when the map has
\* none of the seven (the acquisition of a track that has only FLAC, AAC and
\* MP3_160_ENC then fails); every iteration order of the map gives that result.
C20_FormatSelection ==
    req["p2"].op = "select_format" =>
        LET entries == req["p2"].files
            order == << "MP3_320", "OGG_VORBIS_320", "MP3_256", "MP3_160",
                        "OGG_VORBIS_160", "MP3_96", "OGG_VORBIS_96" >>
            keys == {entries[i].format : i \in 1..Len(entries)}
            present == {k \in 1..7 : order[k] \in keys}
            first == CHOOSE k \in present : \A j \in present : k <= j
        IN  /\ present = {} => resp["p2"] = None
            /\ present # {} =>
                  /\ resp["p2"].tag = "some"
                  /\ resp["p2"].v.format = order[first]
                  /\ \E i \in 1..Len(entries) :
                        entries[i] = [format |-> order[first],
                                      file_id |-> resp["p2"].v.file_id]
            /\ \A other \in Orders(entries) : select_format_in(other) = resp["p2"]
            /\ select_format(files_of(entries)) = resp["p2"]
            /\ \A env \in LoadEnv : load_track(SpotifyId(4, "track"), env) = None
\* from a map iterating as OGG_VORBIS_96, FLAC, MP3_256 the selector has taken
\* MP3_256 and its file id
C20_Witness ==
    /\ req["p2"].op = "select_format"
    /\ Len(req["p2"].files) = 3
    /\ req["p2"].files[1].format = "OGG_VORBIS_96"
    /\ req["p2"].files[2].format = "FLAC_FLAC"
    /\ req["p2"].files[3].format = "MP3_256"
    /\ resp["p2"] = Some([format |-> "MP3_256", file_id |-> 103])

\* C21 as stated: when the item resolved for an id is unavailable and has
\* alternatives, the alternatives are probed and the acquisition goes on with
\* one whose probe succeeded: with a successful probe and nothing else failing
\* in the environment, load_track returns a track.
C21_UnavailableUsesAlternative ==
    req["p2"].op = "load_track" =>
        LET audio_item == Catalogue(req["p2"].track.id)
            env == req["p2"].env
        IN  ( /\ ~audio_item.availability
              /\ audio_item.alternatives.tag = "some"
              /\ env.alt \in audio_item.alternatives.v
              /\ Catalogue(env.alt).availability
              /\ env.fail \in {"none", "key"} )
            => resp["p2"].tag = "some"

\* C22 as stated: however many opens are outstanding, beyond what the 16-bit
\* counter can hold as well, an entry that is present has a ref count of at
\* least 1, and an entry goes only with the close that balances the last
\* outstanding open: while opens are outstanding on an id, its entry is present.
C22_RefCountSurvivesWrap ==
    \A t \in AllIds :
        /\ Present(t) => opened_tracks[t].ref_count >= 1
        /\ outstanding[t] >= 1 => Present(t)

\* C23 as stated: for every position p of the word, seek(Start(p)) leaves the
\* stream at exactly offset + p, the sum neither wrapping nor aborting, and
\* returns p.
C23_StartNeverOverflows ==
    [][ \A t \in DOMAIN opened_tracks :
          Calls(t, "Start")
          => /\ resp'["p2"] = Ok([position |-> req'["p2"].position])
             /\ opened_tracks'[t].file.pos = FileOf(t).offset + req'["p2"].position ]_vars

\* C24: the set of ids present and the ref count of every entry change only in
\* the step in which an open or a close of that id completes; no step of a
\* read (handler, lookup, seek, underlying read, send) and no seek changes them.
C24_ReadSeekFrame ==
    [][ \A t \in AllIds :
          ( \/ Present(t) # Present(t)'
            \/ /\ Present(t) /\ Present(t)'
               /\ opened_tracks'[t].ref_count # opened_tracks[t].ref_count )
          => \E p \in Procs :
                /\ pc[p] \in {"wait_loader", "acquiring"} /\ pc'[p] = "done"
                /\ req[p].op \in {"open", "close"}
                /\ req[p].track = t ]_vars
\* a read session has delivered its chunks and a seek has succeeded on an
\* entry opened once: its ref count is still 1
C24_Witness ==
    \E p, q \in Procs :
        /\ req[p].op = "read" /\ task[p] = "done" /\ Len(sent[p]) >= 2
        /\ Done(q, "seek") /\ resp[q].tag = "ok"
        /\ req[q].track = read_key(req[p])
        /\ Present(req[q].track)
        /\ opened_tracks[req[q].track].ref_count = 1
        /\ outstanding[req[q].track] = 1

\* C25: from the initial seek of a read session until its producer task ends,
\* the Registry changes only by that session's own reads: the entry read stays
\* present, and the data chunks of the session are consecutive bytes of the
\* stream from the position the session sought, whatever seeks, reads and
\* closes on the same id are in flight.
C25_SessionAtomic ==
    /\ [](\A p \in Procs :
            sess[p].found =>
              /\ InTransfer(p) => Present(read_key(req[p]))
              /\ \A i \in 1..Len(Produced(p)) :
                   Produced(p)[i].kind = "chunk" =>
                     Produced(p)[i].from
                       = IF i = 1 THEN sess[p].base
                         ELSE Produced(p)[i - 1].from + Produced(p)[i - 1].n)
    /\ [][ \A p \in Procs :
             (sess[p].found /\ InTransfer(p) /\ opened_tracks' # opened_tracks)
             => /\ nreads'[p] = nreads[p] + 1
                /\ DOMAIN opened_tracks' = DOMAIN opened_tracks
                /\ \A q \in Procs \ {p} : pc'[q] = pc[q] ]_vars
\* a session has its first chunk queued and is about to send its second while
\* a seek on the same id waits for the loader lock
C25_Witness ==
    \E p, q \in Procs :
        /\ p # q
        /\ sess[p].found /\ task[p] = "send_chunk" /\ Len(sent[p]) = 1
        /\ item[p].from = sent[p][1].from + sent[p][1].n
        /\ pc[q] = "wait_loader" /\ req[q].op = "seek"
        /\ req[q].track = read_key(req[p])

\* the data bytes of the first k items of a sequence of items
RECURSIVE BytesOf(_, _)
BytesOf(items, k) == IF k = 0 THEN 0 ELSE BytesOf(items, k - 1) + items[k].n

\* C26: in every state of a read session the count of bytes read is at most
\* limit, so limit - read is never negative, and the data bytes of the items
\* the session has produced are at most that count (exactly that count while
\* the consumer is connected), hence never more than limit.
C26_ReadWithinLimit ==
    \A p \in Procs :
        (req[p].op = "read" /\ task[p] # "none") =>
            /\ read[p] >= 0 /\ read[p] <= req[p].limit
            /\ req[p].limit - read[p] >= 0
            /\ BytesOf(Produced(p), Len(Produced(p))) <= read[p]
            /\ rx_open[p] => BytesOf(Produced(p), Len(Produced(p))) = read[p]
            /\ BytesOf(sent[p], Len(sent[p])) <= req[p].limit
\* a session of limit 500 with one short read has ended with 500 bytes sent
C26_Witness ==
    \E p \in Procs :
        /\ req[p].op = "read" /\ req[p].limit = 500
        /\ task[p] = "done" /\ short_reads[p] = 1
        /\ read[p] = 500
        /\ BytesOf(sent[p], Len(sent[p])) = 500

\* C27 as stated: a session that reads from offset 0 as many bytes as the open
\* of its entry reported as filesize, with no read error and a connected
\* consumer, delivers exactly filesize data bytes: it has that many when it
\* ends, and no zero-byte eof chunk comes before them.
C27_FilesizeIsReadable ==
    \A p \in Procs :
        ( /\ req[p].op = "read" /\ req[p].position = 0
          /\ sess[p].found /\ sess[p].errs = 0 /\ rx_open[p]
          /\ first_open[read_key(req[p])].tag = "ok"
          /\ req[p].limit = first_open[read_key(req[p])].v.filesize )
        => /\ task[p] = "done" => BytesOf(sent[p], Len(sent[p])) = req[p].limit
           /\ \A i \in 1..Len(Produced(p)) :
                Produced(p)[i].eof => BytesOf(Produced(p), i) = req[p].limit

\* C28 as stated: while a ref has been opened successfully more often than it
\* has been closed, a read, a seek and a close of that ref look up the key the
\* open registered and none of them reports "No track is currently open".
C28_OpenRefIsFound ==
    \A p \in Procs :
        /\ (req[p].op = "read" /\ task[p] \notin {"none", "spawned"}
            /\ outstanding[req[p].track] >= 1)
           => /\ sess[p].found => read_key(req[p]) = req[p].track
              /\ task[p] # "send_notopen"
              /\ \A i \in 1..Len(Produced(p)) :
                    Produced(p)[i].msg # "No track is currently open"
        /\ (req[p].op = "seek" /\ pc[p] = "done" /\ outstanding[req[p].track] >= 1)
           => resp[p] # Err("No track is currently open")
        /\ (req[p].op = "close" /\ pc[p] = "done")
           => (resp[p] = Err("No track is currently open")
                  => outstanding[req[p].track] = 0)

\* C29: the two nested locks never deadlock: under the fairness of
\* SpecLocksFair every request that is being served (a handler queued on or
\* holding a lock, an acquisition, a producer task) is eventually served to its
\* end, and every task that holds a lock eventually releases it, also when an
\* open, seek or close waits for the loader lock behind a producer that is
\* suspended on a full channel.
C29_NoDeadlock ==
    \A p \in Procs :
        /\ InFlight(p) ~> ~InFlight(p)
        /\ Holds(state_lock, p) ~> ~Holds(state_lock, p)
        /\ Holds(loader_lock, p) ~> ~Holds(loader_lock, p)
C29_Witness ==
    \E p, q \in Procs :
        /\ p # q
        /\ task[p] = "send_chunk" /\ Holds(loader_lock, p)
        /\ rx_open[p] /\ Queued(p) = ChannelCapacity
        /\ req[q].op \in {"open", "seek", "close"}
        /\ pc[q] = "wait_loader" /\ Holds(state_lock, q)

====
